---- MODULE Spec2Model ----
(***************************************************************************)
(* xml2csv: flattening an XML document into CSV rows.                      *)
(*                                                                         *)
(* An element is a record [tag, text, kids]; text is a sequence of         *)
(* one-character strings (ElementTree's None and "" are both <<>>) and     *)
(* kids the ordered children.  An element of a document is named by its    *)
(* position, the sequence of child indices (1-based) leading to it from    *)
(* the root, <<>> being the root.  PathKeys are sequences of tags, column  *)
(* names are strings.  Python dicts keep insertion order, so every dict    *)
(* the code iterates is a sequence of <<key, value>> pairs here.           *)
(***************************************************************************)
EXTENDS Integers, Sequences, FiniteSets, TLC

VARIABLES inputs, merge, pc, di, row_parent, row_tag, row_elements, ri,
          header_order, header_paths, table_rows, outputs, writes, rowsrc

vars == <<inputs, merge, pc, di, row_parent, row_tag, row_elements, ri,
          header_order, header_paths, table_rows, outputs, writes, rowsrc>>

----------------------------------------------------------------------------
(* Elements and text *)

Elem(t, x, ks) == [tag |-> t, text |-> x, kids |-> ks]

RECURSIVE NodeAt(_, _)
NodeAt(node, pos) ==
    IF pos = <<>> THEN node ELSE NodeAt(node.kids[Head(pos)], Tail(pos))

SP == " "

RECURSIVE LStrip(_)
LStrip(s) == IF s # <<>> /\ Head(s) = SP THEN LStrip(Tail(s)) ELSE s

RECURSIVE RStrip(_)
RStrip(s) ==
    IF s # <<>> /\ s[Len(s)] = SP THEN RStrip(SubSeq(s, 1, Len(s) - 1)) ELSE s

\* (node.text or "").strip()
Strip(s) == RStrip(LStrip(s))

Last(s) == s[Len(s)]

\* ".".join(full_path)
RECURSIVE Join(_)
Join(path) ==
    IF Len(path) = 1 THEN path[1] ELSE path[1] \o "." \o Join(Tail(path))

----------------------------------------------------------------------------
(* Insertion-ordered dicts: sequences of <<key, value>> pairs *)

OdHas(od, k) == \E i \in 1..Len(od) : od[i][1] = k

OdGet(od, k) == od[CHOOSE i \in 1..Len(od) : od[i][1] = k][2]

\* od[k] = v: an existing key keeps its place and takes the new value
OdSet(od, k, v) ==
    IF OdHas(od, k)
    THEN [i \in 1..Len(od) |-> IF od[i][1] = k THEN <<k, v>> ELSE od[i]]
    ELSE Append(od, <<k, v>>)

----------------------------------------------------------------------------
(* get_children_by_tag: tag -> indices of the children with that tag, the  *)
(* tags in first-seen order, the indices ascending.                         *)

RECURSIVE GroupKids(_, _, _)
GroupKids(kids, i, acc) ==
    IF i > Len(kids) THEN acc
    ELSE LET t == kids[i].tag IN
         GroupKids(kids, i + 1,
                   IF OdHas(acc, t) THEN OdSet(acc, t, Append(OdGet(acc, t), i))
                   ELSE Append(acc, <<t, <<i>>>>))

get_children_by_tag(parent) == GroupKids(parent.kids, 1, <<>>)

\* Optional values: <<>> is None, <<v>> is v
None == <<>>
Some(v) == <<v>>

RECURSIVE FirstRepeating(_, _)
FirstRepeating(by_tag, i) ==
    IF i > Len(by_tag) THEN None
    ELSE IF Len(by_tag[i][2]) > 1 THEN Some(by_tag[i][1])
    ELSE FirstRepeating(by_tag, i + 1)

first_repeating_child_tag(parent) == FirstRepeating(get_children_by_tag(parent), 1)

ChildPositions(node, pos) == [i \in 1..Len(node.kids) |-> Append(pos, i)]

\* A depth-first variant: the children go to the front of the queue.
RECURSIVE BfsLoopDfs(_, _)
BfsLoopDfs(root, queue) ==
    IF queue = <<>>
    THEN [parent |-> None, tag |-> root.tag, elements |-> << <<>> >>]
    ELSE LET p      == Head(queue)
             parent == NodeAt(root, p)
             tag    == first_repeating_child_tag(parent)
         IN  IF tag # None
             THEN LET idxs == OdGet(get_children_by_tag(parent), tag[1])
                  IN  [parent   |-> Some(p),
                       tag      |-> tag[1],
                       elements |-> [i \in 1..Len(idxs) |-> Append(p, idxs[i])]]
             ELSE BfsLoopDfs(root, ChildPositions(parent, p) \o Tail(queue))

\* The while loop of find_row_parent_and_tag: queue.pop(0), test, extend.
RECURSIVE BfsLoop(_, _)
BfsLoop(root, queue) ==
    IF queue = <<>>
    THEN [parent |-> None, tag |-> root.tag, elements |-> << <<>> >>]
    ELSE LET p      == Head(queue)
             parent == NodeAt(root, p)
             tag    == first_repeating_child_tag(parent)
         IN  IF tag # None
             THEN LET idxs == OdGet(get_children_by_tag(parent), tag[1])
                  IN  [parent   |-> Some(p),
                       tag      |-> tag[1],
                       elements |-> [i \in 1..Len(idxs) |-> Append(p, idxs[i])]]
             ELSE BfsLoop(root, Tail(queue) \o ChildPositions(parent, p))

find_row_parent_and_tag(root) == BfsLoop(root, << <<>> >>)

----------------------------------------------------------------------------
(* Group Indexer *)

\* compute_repeating_group_keys: the tags with more than one child, each as
\* (group_key, tag, children)
compute_repeating_group_keys(parent, parent_path) ==
    LET rep == SelectSeq(get_children_by_tag(parent), LAMBDA e : Len(e[2]) > 1)
    IN  [i \in 1..Len(rep) |->
            [key |-> Append(parent_path, rep[i][1]), tag |-> rep[i][1],
             children |-> rep[i][2]]]

RECURSIVE FirstUnselected(_, _, _)
FirstUnselected(groups, selection, i) ==
    IF i > Len(groups) THEN None
    ELSE IF ~OdHas(selection, groups[i].key) THEN Some(groups[i])
    ELSE FirstUnselected(groups, selection, i + 1)

RECURSIVE find_next_unselected_repeating_group(_, _, _), FindInSingletons(_, _, _, _),
          FindInAllChildren(_, _, _, _)
find_next_unselected_repeating_group(root, selection, path_prefix) ==
    LET hit == FirstUnselected(compute_repeating_group_keys(root, path_prefix),
                               selection, 1)
    IN  IF hit # None THEN hit
        ELSE FindInSingletons(root, selection, path_prefix, 1)

\* A variant that recurses into every child, the members of repeating groups
\* included.
FindInAllChildren(root, selection, path_prefix, i) ==
    IF i > Len(root.kids) THEN None
    ELSE LET child == root.kids[i]
             found == find_next_unselected_repeating_group(
                          child, selection, Append(path_prefix, child.tag))
         IN  IF found # None THEN found
             ELSE FindInAllChildren(root, selection, path_prefix, i + 1)

\* the second loop: recurse into the children whose tag occurs once
FindInSingletons(root, selection, path_prefix, i) ==
    IF i > Len(root.kids) THEN None
    ELSE LET child    == root.kids[i]
             siblings == OdGet(get_children_by_tag(root), child.tag)
             found    == IF Len(siblings) = 1
                         THEN find_next_unselected_repeating_group(
                                  child, selection, Append(path_prefix, child.tag))
                         ELSE None
         IN  IF found # None THEN found
             ELSE FindInSingletons(root, selection, path_prefix, i + 1)

----------------------------------------------------------------------------
(* Leaf Collector *)

RECURSIVE iter_scalar_leaves(_, _, _), LeavesByTag(_, _, _, _, _)
\* the sequence of <<path, text>> the generator yields
iter_scalar_leaves(node, selection, path) ==
    IF node.kids = <<>> THEN << <<path, Strip(node.text)>> >>
    ELSE LeavesByTag(node, selection, path, get_children_by_tag(node), 1)

LeavesByTag(node, selection, path, by_tag, i) ==
    IF i > Len(by_tag) THEN <<>>
    ELSE LET siblings  == by_tag[i][2]
             next_path == Append(path, by_tag[i][1])
             here ==
                 IF Len(siblings) > 1
                 THEN IF OdHas(selection, next_path)
                      THEN LET idx == OdGet(selection, next_path)
                           IN  IF 0 <= idx /\ idx < Len(siblings)
                               THEN iter_scalar_leaves(node.kids[siblings[idx + 1]],
                                                       selection, next_path)
                               ELSE <<>>
                      ELSE <<>>
                 ELSE iter_scalar_leaves(node.kids[siblings[1]], selection, next_path)
         IN  here \o LeavesByTag(node, selection, path, by_tag, i + 1)

\* The leaves build_container_values keeps (lines 204-209): not under the row
\* tag of the row parent, and not empty.
ContainerLeaves(parent, tag) ==
    SelectSeq(iter_scalar_leaves(parent, <<>>, <<parent.tag>>),
              LAMBDA l : /\ ~(Len(l[1]) >= 2 /\ l[1][1] = parent.tag /\ l[1][2] = tag)
                         /\ l[2] # <<>>)

RECURSIVE StoreLeaves(_, _, _)
\* values[path[-1]] = text, leaf after leaf
StoreLeaves(leaves, i, values) ==
    IF i > Len(leaves) THEN values
    ELSE StoreLeaves(leaves, i + 1, OdSet(values, Last(leaves[i][1]), leaves[i][2]))

build_container_values(root, parent_opt, tag) ==
    IF parent_opt = None THEN <<>>
    ELSE StoreLeaves(ContainerLeaves(NodeAt(root, parent_opt[1]), tag), 1, <<>>)

----------------------------------------------------------------------------
(* Column Namer *)

RECURSIVE SuffixLoop(_, _, _)
SuffixLoop(dotted, existing, i) ==
    LET alt == dotted \o "_" \o ToString(i)
    IN  IF alt \notin DOMAIN existing THEN alt ELSE SuffixLoop(dotted, existing, i + 1)

\* A variant without the dotted path: a taken name is numbered at once.
DisambiguateByNumber(candidate, full_path, existing) ==
    IF candidate \notin DOMAIN existing THEN candidate
    ELSE SuffixLoop(candidate, existing, 2)

disambiguate_column_name(candidate, full_path, existing) ==
    IF candidate \notin DOMAIN existing THEN candidate
    ELSE LET dotted == Join(full_path)
         IN  IF dotted \notin DOMAIN existing THEN dotted
             ELSE SuffixLoop(dotted, existing, 2)

----------------------------------------------------------------------------
(* Row Assembler: extract_rows_for_element *)

\* The expansion loop (lines 254-267): pending is a stack, pop() takes its
\* last entry; a selection is the dict GroupKey -> index in insertion order.
RECURSIVE ExpandLoop(_, _, _)
ExpandLoop(row_elem, pending, finalized) ==
    IF pending = <<>> THEN finalized
    ELSE LET sel   == Last(pending)
             rest  == SubSeq(pending, 1, Len(pending) - 1)
             found == find_next_unselected_repeating_group(row_elem, sel, <<row_elem.tag>>)
         IN  IF found = None THEN ExpandLoop(row_elem, rest, Append(finalized, sel))
             ELSE ExpandLoop(row_elem,
                             rest \o [k \in 1..Len(found[1].children) |->
                                         Append(sel, <<found[1].key, k - 1>>)],
                             finalized)

EmptyMap == [c \in {} |-> <<>>]

\* A row under construction with the header it updates: st is
\* [order, paths, row, log]; log is the set of writes row_map[col] = text made
\* so far, each with the PathKey the code holds for the value.
Register(st, col, path) ==
    IF col \in DOMAIN st.paths THEN st
    ELSE [st EXCEPT !.paths = st.paths @@ (col :> path), !.order = Append(st.order, col)]

\* lines 274-288, one container value
SeedOne(st, ptag, candidate_name, value) ==
    LET full_path == <<ptag, candidate_name>>
        col == IF candidate_name \in DOMAIN st.paths /\ st.paths[candidate_name] # full_path
               THEN disambiguate_column_name(candidate_name, full_path, st.paths)
               ELSE candidate_name
        reg == Register(st, col, full_path)
    IN  [reg EXCEPT !.row = IF col \in DOMAIN reg.row THEN reg.row ELSE reg.row @@ (col :> value),
                    !.log = reg.log \cup {[kind |-> "container", path |-> full_path,
                                           col |-> col, text |-> value]}]

RECURSIVE SeedLoop(_, _, _, _)
SeedLoop(st, ptag, container_values, i) ==
    IF i > Len(container_values) THEN st
    ELSE SeedLoop(SeedOne(st, ptag, container_values[i][1], container_values[i][2]),
                  ptag, container_values, i + 1)

\* A variant that stores the value only with a column it has just added to
\* the header (row_map[col] = text under "if col not in header_paths").
LeafOneNewOnly(st, parent_opt, ptag, tag, path, text) ==
    LET effective_path ==
            IF Len(path) >= 2 /\ parent_opt # None /\ path[1] = ptag /\ path[2] = tag
            THEN Tail(path) ELSE path
        candidate_name == Last(effective_path)
        col == IF candidate_name \in DOMAIN st.paths /\ st.paths[candidate_name] # effective_path
               THEN disambiguate_column_name(candidate_name, effective_path, st.paths)
               ELSE candidate_name
        reg == Register(st, col, effective_path)
    IN  IF text = <<>> \/ col \in DOMAIN st.paths THEN st
        ELSE [reg EXCEPT !.row = [c \in DOMAIN reg.row \cup {col} |->
                                     IF c = col THEN text ELSE reg.row[c]],
                         !.log = reg.log \cup {[kind |-> "row", path |-> effective_path,
                                                col |-> col, text |-> text]}]

\* lines 291-311, one leaf of the row element
LeafOne(st, parent_opt, ptag, tag, path, text) ==
    LET effective_path ==
            IF Len(path) >= 2 /\ parent_opt # None /\ path[1] = ptag /\ path[2] = tag
            THEN Tail(path) ELSE path
        candidate_name == Last(effective_path)
        col == IF candidate_name \in DOMAIN st.paths /\ st.paths[candidate_name] # effective_path
               THEN disambiguate_column_name(candidate_name, effective_path, st.paths)
               ELSE candidate_name
        reg == Register(st, col, effective_path)
    IN  IF text = <<>> THEN st
        ELSE [reg EXCEPT !.row = [c \in DOMAIN reg.row \cup {col} |->
                                     IF c = col THEN text ELSE reg.row[c]],
                         !.log = reg.log \cup {[kind |-> "row", path |-> effective_path,
                                                col |-> col, text |-> text]}]

RECURSIVE LeafLoop(_, _, _, _, _, _)
LeafLoop(st, parent_opt, ptag, tag, leaves, i) ==
    IF i > Len(leaves) THEN st
    ELSE LeafLoop(LeafOne(st, parent_opt, ptag, tag, leaves[i][1], leaves[i][2]),
                  parent_opt, ptag, tag, leaves, i + 1)

\* the loop over finalized (lines 270-313); acc is [order, paths, rows, log]
RECURSIVE RowLoop(_, _, _, _, _, _, _, _)
RowLoop(acc, row_elem, parent_opt, ptag, tag, container_values, finalized, i) ==
    IF i > Len(finalized) THEN acc
    ELSE LET st0 == [order |-> acc.order, paths |-> acc.paths, row |-> EmptyMap,
                     log |-> acc.log]
             st1 == SeedLoop(st0, ptag, container_values, 1)
             st2 == LeafLoop(st1, parent_opt, ptag, tag,
                             iter_scalar_leaves(row_elem, finalized[i], <<row_elem.tag>>), 1)
         IN  RowLoop([order |-> st2.order, paths |-> st2.paths,
                      rows |-> Append(acc.rows, st2.row), log |-> st2.log],
                     row_elem, parent_opt, ptag, tag, container_values, finalized, i + 1)

\* root is the document, elem_pos the row element's position; the result is
\* the header as updated, the rows of this row element, the selections they
\* were built from and the writes made.
extract_rows_for_element(root, elem_pos, parent_opt, tag, order, paths) ==
    LET row_elem  == NodeAt(root, elem_pos)
        ptag      == IF parent_opt = None THEN "" ELSE NodeAt(root, parent_opt[1]).tag
        container_values == build_container_values(root, parent_opt, tag)
        finalized == ExpandLoop(row_elem, << <<>> >>, <<>>)
        res == RowLoop([order |-> order, paths |-> paths, rows |-> <<>>, log |-> {}],
                       row_elem, parent_opt, ptag, tag, container_values, finalized, 1)
    IN  [order |-> res.order, paths |-> res.paths, rows |-> res.rows,
         sels |-> finalized, log |-> res.log]

\* extract_table_from_file: the loop over the row elements (lines 362-366)
RECURSIVE ElementsLoop(_, _, _, _, _, _)
ElementsLoop(root, r, order, paths, i, rows) ==
    IF i > Len(r.elements) THEN [order |-> order, paths |-> paths, rows |-> rows]
    ELSE LET x == extract_rows_for_element(root, r.elements[i], r.parent, r.tag, order, paths)
         IN  ElementsLoop(root, r, x.order, x.paths, i + 1, rows \o x.rows)

extract_table_from_file(root, order, paths) ==
    ElementsLoop(root, find_row_parent_and_tag(root), order, paths, 1, <<>>)

\* main's merge loop (lines 379-388) over docs from docs[i] on: the merged
\* header and, per input, its rows
RECURSIVE MergeLoop(_, _, _, _, _)
MergeLoop(docs, i, order, paths, tables) ==
    IF i > Len(docs) THEN [order |-> order, paths |-> paths, tables |-> tables]
    ELSE LET t == extract_table_from_file(docs[i], order, paths)
         IN  MergeLoop(docs, i + 1, t.order, t.paths, Append(tables, t.rows))

----------------------------------------------------------------------------
(* Input documents *)

MaxNodes == 8
MaxFreeNodes == 5
MaxWideNodes == 6
MaxFirstNodes == 2
MaxSecondNodes == 4

RootTag == "a"
Tags == {"a", "b", "n"}
MergeTags == {"b", "n"}

\* every ordered tree of n elements with tags from T
RECURSIVE FreeTrees(_, _), FreeForests(_, _)
FreeTrees(n, T) == {Elem(t, <<>>, f) : t \in T, f \in FreeForests(n - 1, T)}

FreeForests(m, T) ==
    IF m = 0 THEN {<<>>}
    ELSE UNION {{<<t>> \o f : t \in FreeTrees(k, T), f \in FreeForests(m - k, T)} :
                k \in 1..m}

\* Schema-like documents: the elements at depth d are tagged x<d> or y<d>, and
\* among siblings y<d> occurs only after x<d>.
LevelTags(d, first) ==
    IF first THEN {"x" \o ToString(d)} ELSE {"x" \o ToString(d), "y" \o ToString(d)}

RECURSIVE TypedTrees(_, _, _), TypedForests(_, _, _)
TypedTrees(n, d, t) == {Elem(t, <<>>, f) : f \in TypedForests(n - 1, d + 1, TRUE)}

TypedForests(m, d, first) ==
    IF m = 0 THEN {<<>>}
    ELSE UNION {{<<t>> \o f : t \in UNION {TypedTrees(k, d, g) : g \in LevelTags(d, first)},
                              f \in TypedForests(m - k, d, FALSE)} :
                k \in 1..m}

\* Every leaf gets a text of its own, its position after a blank: " v12" for
\* the second child of the first child of the root.
RECURSIVE PosStr(_)
PosStr(pos) == IF pos = <<>> THEN "v" ELSE PosStr(SubSeq(pos, 1, Len(pos) - 1)) \o ToString(Last(pos))

RECURSIVE Fill(_, _)
Fill(node, pos) ==
    IF node.kids = <<>> THEN [node EXCEPT !.text = <<SP, PosStr(pos)>>]
    ELSE [node EXCEPT !.kids = [i \in 1..Len(node.kids) |-> Fill(node.kids[i], Append(pos, i))]]

\* The same with the text of the first leaf made of blanks only.
RECURSIVE BlankFirst(_)
BlankFirst(node) ==
    IF node.kids = <<>> THEN [node EXCEPT !.text = <<SP, SP>>]
    ELSE [node EXCEPT !.kids = [i \in 1..Len(node.kids) |->
                                   IF i = 1 THEN BlankFirst(node.kids[1]) ELSE node.kids[i]]]

FreeDocs(n, T) == {Fill(t, <<>>) : t \in UNION {FreeTrees(k, T) : k \in 1..n}}

\* documents whose root element is RootTag
RootedDocs(n) ==
    {Fill(Elem(RootTag, <<>>, f), <<>>) : f \in UNION {FreeForests(k - 1, Tags) : k \in 1..n}}

TypedDocs(n) == {Fill(t, <<>>) : t \in UNION {TypedTrees(k, 0, "x0") : k \in 1..n}}

----------------------------------------------------------------------------
(* main: the loop over the inputs, in merge mode and in one-CSV-per-input   *)
(* mode.  pc is the position in it.                                         *)

\* One input, or two: two inputs are merged (a first and a second) or
\* converted one after the other (two firsts).
InitWith(singles, firsts, seconds) ==
    /\ \/ /\ inputs \in {<<d>> : d \in singles}
          /\ merge = FALSE
       \/ /\ inputs \in {<<d1, d2>> : d1 \in firsts, d2 \in seconds}
          /\ merge = TRUE
       \/ /\ inputs \in {<<d1, d2>> : d1 \in firsts, d2 \in firsts}
          /\ merge = FALSE
    /\ pc = "locate"
    /\ di = 1
    /\ row_parent = None
    /\ row_tag = ""
    /\ row_elements = <<>>
    /\ ri = 1
    /\ header_order = <<>>
    /\ header_paths = EmptyMap
    /\ table_rows = <<>>
    /\ outputs = <<>>
    /\ writes = {}
    /\ rowsrc = <<>>

Init == InitWith(RootedDocs(MaxFreeNodes)
                   \cup {BlankFirst(d) : d \in RootedDocs(MaxSecondNodes)},
                 FreeDocs(MaxFirstNodes, MergeTags),
                 FreeDocs(MaxSecondNodes, MergeTags))

InitDeep == InitWith(TypedDocs(MaxNodes), TypedDocs(MaxFirstNodes), TypedDocs(MaxFirstNodes))

InitWide == InitWith(RootedDocs(MaxWideNodes), FreeDocs(MaxFirstNodes, MergeTags),
                     FreeDocs(MaxFirstNodes, MergeTags))

\* find_row_parent_and_tag on the current input (lines 320-326, 359-362); in
\* one-CSV-per-input mode the header and the rows start empty for every input.
Locate ==
    /\ pc = "locate"
    /\ LET r == find_row_parent_and_tag(inputs[di])
       IN  /\ row_parent' = r.parent
           /\ row_tag' = r.tag
           /\ row_elements' = r.elements
    /\ ri' = 1
    /\ pc' = "rows"
    /\ IF merge
       THEN UNCHANGED <<header_order, header_paths, table_rows, writes, rowsrc>>
       ELSE /\ header_order' = <<>>
            /\ header_paths' = EmptyMap
            /\ table_rows' = <<>>
            /\ writes' = {}
            /\ rowsrc' = <<>>
    /\ UNCHANGED <<inputs, merge, di, outputs>>

\* the writes values[col] = text of build_container_values (line 211)
ContainerWrites(root, parent_opt, tag) ==
    IF parent_opt = None THEN {}
    ELSE LET leaves == ContainerLeaves(NodeAt(root, parent_opt[1]), tag)
         IN  {[kind |-> "values", path |-> leaves[i][1], col |-> Last(leaves[i][1]),
               text |-> leaves[i][2]] : i \in 1..Len(leaves)}

\* one turn of the loop over row_elements (lines 328-330, 363-365)
ExtractRows ==
    /\ pc = "rows"
    /\ ri <= Len(row_elements)
    /\ LET r == extract_rows_for_element(inputs[di], row_elements[ri], row_parent,
                                         row_tag, header_order, header_paths)
       IN  /\ header_order' = r.order
           /\ header_paths' = r.paths
           /\ table_rows' = table_rows \o r.rows
           /\ writes' = writes \cup
                  {[doc |-> di, kind |-> w.kind, path |-> w.path, col |-> w.col,
                    text |-> w.text] :
                   w \in r.log \cup ContainerWrites(inputs[di], row_parent, row_tag)}
           /\ rowsrc' = rowsrc \o [i \in 1..Len(r.sels) |->
                                     [doc |-> di, elem |-> row_elements[ri], sel |-> r.sels[i]]]
    /\ ri' = ri + 1
    /\ UNCHANGED <<inputs, merge, pc, di, row_parent, row_tag, row_elements, outputs>>

\* writer.writerow(header), then [row.get(col, "") for col in header] per row
Table(order, rows) ==
    [header |-> order,
     rows   |-> [i \in 1..Len(rows) |->
                    [j \in 1..Len(order) |->
                        IF order[j] \in DOMAIN rows[i] THEN rows[i][order[j]] ELSE <<>>]]]

RowsDone == pc = "rows" /\ ri > Len(row_elements)

\* convert_xml_to_csv writes the CSV of this input (lines 340-344); main takes
\* the next input, if any
WriteCsv ==
    /\ RowsDone
    /\ ~merge
    /\ outputs' = Append(outputs, Table(header_order, table_rows))
    /\ IF di < Len(inputs)
       THEN di' = di + 1 /\ pc' = "locate"
       ELSE di' = di /\ pc' = "done"
    /\ UNCHANGED <<inputs, merge, row_parent, row_tag, row_elements, ri,
                   header_order, header_paths, table_rows, writes, rowsrc>>

\* merge mode: the next input, against the same header (lines 383-388)
NextInput ==
    /\ RowsDone
    /\ merge
    /\ di < Len(inputs)
    /\ di' = di + 1
    /\ pc' = "locate"
    /\ UNCHANGED <<inputs, merge, row_parent, row_tag, row_elements, ri,
                   header_order, header_paths, table_rows, outputs, writes, rowsrc>>

\* merge mode: the merged CSV after the last input (lines 399-403)
WriteMerged ==
    /\ RowsDone
    /\ merge
    /\ di = Len(inputs)
    /\ outputs' = Append(outputs, Table(header_order, table_rows))
    /\ pc' = "done"
    /\ UNCHANGED <<inputs, merge, di, row_parent, row_tag, row_elements, ri,
                   header_order, header_paths, table_rows, writes, rowsrc>>

Next == Locate \/ ExtractRows \/ WriteCsv \/ NextInput \/ WriteMerged

Spec == Init /\ [][Next]_vars

SpecDeep == InitDeep /\ [][Next]_vars

SpecWide == InitWide /\ [][Next]_vars

----------------------------------------------------------------------------
(* Properties.  The definitions below describe documents directly, by      *)
(* positions, without the traversals above.                                *)

RECURSIVE PosSet(_, _)
PosSet(node, pos) ==
    {pos} \cup UNION {PosSet(node.kids[i], Append(pos, i)) : i \in 1..Len(node.kids)}

Positions(root) == PosSet(root, <<>>)

TagCount(node, t) == Cardinality({i \in 1..Len(node.kids) : node.kids[i].tag = t})

KidTags(node) == {node.kids[i].tag : i \in 1..Len(node.kids)}

RepeatingTags(node) == {t \in KidTags(node) : TagCount(node, t) > 1}

FirstIndexOf(node, t) ==
    CHOOSE i \in 1..Len(node.kids) :
        node.kids[i].tag = t /\ \A j \in 1..(i - 1) : node.kids[j].tag # t

\* p comes before q in document order (preorder)
DocBefore(p, q) ==
    \/ Len(p) < Len(q) /\ SubSeq(q, 1, Len(p)) = p
    \/ \E k \in 1..Len(p) :
          k <= Len(q) /\ p[k] < q[k] /\ \A m \in 1..(k - 1) : p[m] = q[m]

\* p comes before q in breadth-first order: by depth, then left to right
BfsBefore(p, q) == Len(p) < Len(q) \/ (Len(p) = Len(q) /\ DocBefore(p, q))

RepeatPositions(root) == {p \in Positions(root) : RepeatingTags(NodeAt(root, p)) # {}}

Located == pc \in {"rows", "done"}

\* right after find_row_parent_and_tag has returned
JustLocated == pc = "rows" /\ ri = 1

----------------------------------------------------------------------------

IsSingleton(node, i) == TagCount(node, node.kids[i].tag) = 1

\* every step of the way from elem down to its descendant q is an only child
\* of its tag
SingletonPath(elem, q) ==
    \A k \in 1..Len(q) : IsSingleton(NodeAt(elem, SubSeq(q, 1, k - 1)), q[k])

TagPath(elem, q) == <<elem.tag>> \o [k \in 1..Len(q) |-> NodeAt(elem, SubSeq(q, 1, k)).tag]

\* the repeating groups reachable from elem through singleton-only paths
ReachableGroups(elem) ==
    UNION {{[key |-> Append(TagPath(elem, q), t), size |-> TagCount(NodeAt(elem, q), t)] :
            t \in RepeatingTags(NodeAt(elem, q))} :
           q \in {q \in PosSet(elem, <<>>) : SingletonPath(elem, q)}}

\* the Cartesian product of their index ranges, each combination as the set
\* of its <<GroupKey, index>> pairs
Combinations(G) ==
    {{<<g.key, f[g]>> : g \in G} :
     f \in {f \in [G -> UNION {0..(g.size - 1) : g \in G}] : \A g \in G : f[g] < g.size}}

RECURSIVE SizeProduct(_)
SizeProduct(G) ==
    IF G = {} THEN 1
    ELSE LET g == CHOOSE g \in G : TRUE IN g.size * SizeProduct(G \ {g})

\* the selections of the rows emitted for row element e of input d
SelsOf(d, e) ==
    LET src == SelectSeq(rowsrc, LAMBDA r : r.doc = d /\ r.elem = e)
    IN  [i \in 1..Len(src) |-> src[i].sel]

SeqSet(s) == {s[i] : i \in 1..Len(s)}

\* right after extract_rows_for_element has returned for row_elements[ri - 1]
JustExtracted == pc = "rows" /\ ri > 1

\* C1: the selections of a row element are exactly the Cartesian product of
\* the index ranges of the repeating groups reachable from it through
\* singleton-only paths, each combination once; the number of rows emitted
\* for it is the product of the group sizes.
C1_CartesianRows ==
    /\ Len(rowsrc) = Len(table_rows)
    /\ JustExtracted =>
            LET e == row_elements[ri - 1]
                S == SelsOf(di, e)
                G == ReachableGroups(NodeAt(inputs[di], e))
            IN  /\ Len(S) = SizeProduct(G)
                /\ Len(S) = Cardinality(Combinations(G))
                /\ {SeqSet(S[i]) : i \in 1..Len(S)} = Combinations(G)
                /\ \A i \in 1..Len(S) : Len(S[i]) = Cardinality(G)

\* six rows for a row element with two groups, of sizes 2 and 3
C1_Witness ==
    /\ pc = "rows"
    /\ \E k \in 1..(ri - 1) :
          LET G == ReachableGroups(NodeAt(inputs[di], row_elements[k]))
          IN  /\ {g.size : g \in G} = {2, 3}
              /\ Cardinality(G) = 2
              /\ Len(SelsOf(di, row_elements[k])) = 6

----------------------------------------------------------------------------

RowValues(j) == {table_rows[j][c] : c \in DOMAIN table_rows[j]}

IsLeaf(node) == node.kids = <<>>

\* q, a descendant of elem, is a member of a repeating group or lies in one
InGroupMember(elem, q) ==
    \E k \in 1..Len(q) : ~IsSingleton(NodeAt(elem, SubSeq(q, 1, k - 1)), q[k])

\* C8: every occurrence of a repeating group under a row element, those
\* inside a member of another repeating group included, is expanded: each of
\* its non-empty leaves is a value of at least one row emitted for that row
\* element.
C8_EveryOccurrenceExpanded ==
    Located =>
        \A k \in 1..(ri - 1) :
            LET e    == row_elements[k]
                elem == NodeAt(inputs[di], e)
            IN  \A q \in PosSet(elem, <<>>) :
                    LET leaf == NodeAt(elem, q)
                    IN  (IsLeaf(leaf) /\ Strip(leaf.text) # <<>> /\ InGroupMember(elem, q))
                        => \E j \in 1..Len(rowsrc) :
                              /\ rowsrc[j].doc = di
                              /\ rowsrc[j].elem = e
                              /\ Strip(leaf.text) \in RowValues(j)

IsPrefix(p, q) == Len(p) <= Len(q) /\ SubSeq(q, 1, Len(p)) = p

\* C9: every non-empty leaf that is an only child of its tag under the row
\* parent or under an ancestor of the row parent is a value of every row
\* emitted for the document.
C9_AncestorLeavesRepeated ==
    (Located /\ row_parent # None) =>
        \A l \in Positions(inputs[di]) \ {<<>>} :
            LET leaf == NodeAt(inputs[di], l)
                up   == SubSeq(l, 1, Len(l) - 1)
            IN  (/\ IsPrefix(up, row_parent[1])
                 /\ IsLeaf(leaf)
                 /\ Strip(leaf.text) # <<>>
                 /\ IsSingleton(NodeAt(inputs[di], up), Last(l)))
                => \A j \in 1..Len(rowsrc) :
                      rowsrc[j].doc = di => Strip(leaf.text) \in RowValues(j)

SelIndices(sel) == [i \in 1..Len(sel) |-> sel[i][2]]

\* s before t, lexicographically
LexBefore(s, t) ==
    \E k \in 1..Len(s) : k <= Len(t) /\ s[k] < t[k] /\ \A m \in 1..(k - 1) : s[m] = t[m]

\* C10: rows are emitted in document order: by input, by row element, and
\* within a row element by ascending occurrence index, lexicographically in
\* group discovery order.
C10_RowsInDocumentOrder ==
    \A i, j \in 1..Len(rowsrc) :
        (i < j) =>
            /\ rowsrc[i].doc <= rowsrc[j].doc
            /\ rowsrc[i].doc = rowsrc[j].doc =>
                  \/ DocBefore(rowsrc[i].elem, rowsrc[j].elem)
                  \/ /\ rowsrc[i].elem = rowsrc[j].elem
                     /\ LexBefore(SelIndices(rowsrc[i].sel), SelIndices(rowsrc[j].sel))

----------------------------------------------------------------------------
(* Column names.  writes holds, for the header in use, the writes into      *)
(* container_values (kind "values", with the leaf's path from the row      *)
(* parent), the container values seeded into rows (kind "container", with  *)
(* the path the header records for them) and the leaves of row elements    *)
(* written into rows (kind "row", with their effective path).              *)

\* where the values of leaves end up: a container leaf under the column its
\* values[] key is seeded as, a row leaf under the column it is written to
Placed ==
    {[path |-> w.path, col |-> w.col] : w \in {w \in writes : w.kind = "row"}}
    \cup
    {[path |-> p[1].path, col |-> p[2].col] :
     p \in {p \in writes \X writes :
              /\ p[1].kind = "values" /\ p[2].kind = "container"
              /\ p[1].doc = p[2].doc /\ p[2].path[2] = p[1].col}}

\* C3: no two leaves at different PathKeys have their values written under
\* the same column name.
C3_NamesInjective == \A x, y \in Placed : x.path # y.path => x.col # y.col

\* C4: once a column name is bound to a PathKey, every later value of that
\* PathKey is written under that name (the dotted name included).
C4_NameReused ==
    \A x, y \in {w \in writes : w.kind # "values"} : x.path = y.path => x.col = y.col

OnlyChildLeaf(node, t) ==
    \E i \in 1..Len(node.kids) :
        /\ node.kids[i].tag = t /\ IsSingleton(node, i)
        /\ IsLeaf(node.kids[i]) /\ Strip(node.kids[i].text) # <<>>

TextOf(node, t) == Strip(node.kids[FirstIndexOf(node, t)].text)

\* The scenario of C5, against a fresh header: the root a is the row parent,
\* the row tag is b, a has a leaf n, the first row element has a leaf n, and
\* the first row element has been extracted.
C5_Scenario ==
    /\ pc = "rows" /\ ri > 1
    /\ ~merge \/ di = 1
    /\ inputs[di].tag = "a" /\ row_parent = Some(<<>>) /\ row_tag = "b"
    /\ OnlyChildLeaf(inputs[di], "n")
    /\ OnlyChildLeaf(NodeAt(inputs[di], row_elements[1]), "n")

----------------------------------------------------------------------------

IndexOf(c) == CHOOSE i \in 1..Len(header_order) : header_order[i] = c

Wrote(d, kind, c) == \E w \in writes : w.doc = d /\ w.kind = kind /\ w.col = c

\* input d added column c to the header
RegisteredBy(c, d) ==
    /\ Wrote(d, "container", c) \/ Wrote(d, "row", c)
    /\ \A e \in 1..(d - 1) : ~Wrote(e, "container", c) /\ ~Wrote(e, "row", c)

\* C6: the columns an input registers for container values precede, in the
\* header, the columns it registers for values of row elements.
C6_ContainerColumnsFirst ==
    \A d \in 1..Len(inputs) :
        \A c1, c2 \in SeqSet(header_order) :
            (/\ RegisteredBy(c1, d) /\ Wrote(d, "container", c1)
             /\ RegisteredBy(c2, d) /\ Wrote(d, "row", c2) /\ ~Wrote(d, "container", c2))
            => IndexOf(c1) < IndexOf(c2)

----------------------------------------------------------------------------

\* the rows of input d in table_rows
RowsOfInput(d) ==
    LET idx == SelectSeq([j \in 1..Len(rowsrc) |-> j], LAMBDA j : rowsrc[j].doc = d)
    IN  [k \in 1..Len(idx) |-> table_rows[idx[k]]]

\* the same two inputs merged in the other order
Swapped == MergeLoop(<<inputs[2], inputs[1]>>, 1, <<>>, EmptyMap, <<>>)

MergedPair == pc = "done" /\ merge /\ Len(inputs) = 2

SameContent ==
    /\ SeqSet(header_order) = SeqSet(Swapped.order)
    /\ RowsOfInput(1) = Swapped.tables[2]
    /\ RowsOfInput(2) = Swapped.tables[1]

\* no name was disambiguated: every column is named by the tag of its leaf
PlainNames == \A c \in DOMAIN header_paths : c = Last(header_paths[c])

====
